---- MODULE Spec2Model ----
(***************************************************************************)
(* A model of the websocket-rs connection engine and frame codec           *)
(* (src/src/connection.rs): Manager::decode and Manager::encode as         *)
(* operators over byte sequences, and the Controller / Manager task pair   *)
(* with its three channels as a state machine.                             *)
(*                                                                         *)
(* Bytes are naturals 0..255; u16/u32/u64 values are kept as big-endian    *)
(* byte sequences where their magnitude matters.  How an overflowing       *)
(* shift behaves depends on the build profile and is a choice made in      *)
(* Init: overflow_checks = TRUE (debug profile) makes it panic, FALSE      *)
(* (release profile) takes the shift amount modulo the operand width.      *)
(***************************************************************************)
EXTENDS Integers, Sequences, FiniteSets, TLC

VARIABLES
    overflow_checks, \* build profile: TRUE = overflow checks on (debug)
    \* ---- frame codec runs (SpecCodec) ----
    cmask,           \* self.mask of the Manager that encodes / decodes first
    cpc,             \* "bytes" | "frame" | "encoded" | "decoded"
    craw,            \* the RawFrame handed to encode (NoFrame when none)
    cstream,         \* the bytes on the stream
    cwritten,        \* outcome of encode (NoEncoded before it ran)
    cresult,         \* outcome of decode (NoResult before it ran)
    \* ---- connection engine (Spec) ----
    mask,            \* Manager.mask
    manager,         \* "running" | "panicked"
    manager_exit,    \* which select! branch ended the task ("none" while running)
    send_q,          \* flume channel send_tx -> send_rx
    receive_q,       \* flume channel receive_tx -> receive_rx
    send_rx_alive,   \* the manager still owns send_rx
    receive_tx_alive,\* the manager still owns receive_tx
    stop_rx_alive,   \* the manager still owns stop_rx
    stop_sent,       \* a value sits in the oneshot stop channel
    rx_stream,       \* bytes the peer wrote that the manager has not read
    rx_eof,          \* the peer shut its write half
    tx_stream,       \* bytes the manager wrote to the stream
    app,             \* the Connection's owner: "idle" | "receiving" | "stopping"
                     \* | "stopped" | "dropped"
    send_log,        \* one record per Connection::send call, in call order
    receive_log,     \* one record per completed Connection::receive, in order
    peer_log,        \* the frames the peer wrote, in order
    decoded,         \* result of the manager's decode when that branch fired
    pending_at_exit, \* a receive was pending when the manager terminated
    \* ---- gateway: accept / connect (SpecGateway) ----
    gside,           \* the gateway function that runs: "accept" | "connect"
    gkey,            \* ClientHandshake.key of connect ("" under accept)
    gscript,         \* everything the peer will put on the stream, as tokens
    gpeer,           \* the part of gscript the peer has not sent yet
    geof,            \* the peer closed the stream
    gsock,           \* tokens that arrived and sit in the TcpStream unread
    gbuf,            \* tokens in the BufStream's read buffer, not consumed
    graw,            \* the Vec read_raw_http builds
    gpc,             \* position in accept / connect
    gparsed,         \* what parse_request / parse_response returned
    gout,            \* tokens written to the stream, in order
    gresult,         \* what accept / connect returned ("none" before)
    gengine,         \* role of the engine started: "none" | "Client" | "Server"
    gengine_rx,      \* tokens the engine has read from its TcpStream
    \* ---- status code conversions (SpecStatus) ----
    spc,             \* "raw" | "parsed" | "converted" ("idle" elsewhere)
    sraw,            \* the u16 handed to StatusCode::try_from
    sparsed,         \* what try_from returned
    sback            \* what u16::from returned for the parsed StatusCode

codecVars == <<cmask, cpc, craw, cstream, cwritten, cresult>>
engineVars == <<mask, manager, manager_exit, send_q, receive_q, send_rx_alive,
                receive_tx_alive, stop_rx_alive, stop_sent, rx_stream, rx_eof,
                tx_stream, app, send_log, receive_log, peer_log, decoded,
                pending_at_exit>>
gatewayVars == <<gside, gkey, gscript, gpeer, geof, gsock, gbuf, graw, gpc, gparsed,
                 gout, gresult, gengine, gengine_rx>>
statusVars == <<spc, sraw, sparsed, sback>>
vars == <<overflow_checks, codecVars, engineVars, gatewayVars, statusVars>>

(***************************************************************************)
(* Bounds of the model.                                                    *)
(***************************************************************************)
MaxPayloadLen == 2      \* longest payload of a RawFrame handed to encode
MaxSends == 2           \* Connection::send calls per behaviour
MaxReceives == 1        \* Connection::receive calls per behaviour
MaxPeerFrames == 3      \* frames the peer writes per behaviour
MaxResidual == 2        \* bytes the peer sends behind its header section

(***************************************************************************)
(* Program constants.                                                      *)
(***************************************************************************)
MAX_FRAME_PAYLOAD_SIZE == 16777216
DECODE_UNMASK_SHIFT == 8    \* octet ^ (1 << 8)
ENCODE_FIN_SHIFT == 8       \* (fin << 8) | opcode
ENCODE_MASK_SHIFT == 8      \* masked << 8

(***************************************************************************)
(* u8 arithmetic.                                                          *)
(***************************************************************************)
Byte == 0..255

Bit(x, i) == (x \div (2^i)) % 2

Xor8(a, b) ==
    LET X(i) == ((Bit(a, i) + Bit(b, i)) % 2) * (2^i)
    IN X(0) + X(1) + X(2) + X(3) + X(4) + X(5) + X(6) + X(7)

Or8(a, b) ==
    LET O(i) == (IF Bit(a, i) + Bit(b, i) > 0 THEN 1 ELSE 0) * (2^i)
    IN O(0) + O(1) + O(2) + O(3) + O(4) + O(5) + O(6) + O(7)

\* x << n on a u8 overflows when n >= 8: with overflow checks the operation
\* panics, without them the shift amount is masked to the operand width.
ShlOverflows(n) == n >= 8

WrappingShl8(x, n) == (x * (2^(n % 8))) % 256

Take(s, n) == SubSeq(s, 1, n)

Drop(s, n) == SubSeq(s, n + 1, Len(s))

\* A big-endian unsigned value (read_u16 / read_u64 as usize, usize being 64
\* bits), saturated at SatCap so that it stays representable; every
\* comparison the code makes is against a smaller number.
SatCap == 2^30

RECURSIVE BeValue(_)
BeValue(bytes) ==
    IF bytes = <<>> THEN 0
    ELSE LET hi == BeValue(Take(bytes, Len(bytes) - 1))
             v == IF hi >= SatCap \div 256 THEN SatCap
                  ELSE hi * 256 + bytes[Len(bytes)]
         IN IF v > SatCap THEN SatCap ELSE v

\* n.to_be_bytes() for an n that fits the width (`width` bytes).
RECURSIVE ToBeBytes(_, _)
ToBeBytes(n, width) ==
    IF width = 0 THEN <<>>
    ELSE Append(ToBeBytes(n \div 256, width - 1), n % 256)

(***************************************************************************)
(* Opcode: TryFrom<u8> and From<Opcode> for u8.                            *)
(***************************************************************************)
Opcode == {"Continuation", "Text", "Binary", "Close", "Ping", "Pong"}

OpcodeKnown(raw) == raw \in {0, 1, 2, 8, 9, 10}

OpcodeTryFrom(raw) ==
    CASE raw = 0 -> "Continuation"
      [] raw = 1 -> "Text"
      [] raw = 2 -> "Binary"
      [] raw = 8 -> "Close"
      [] raw = 9 -> "Ping"
      [] raw = 10 -> "Pong"

OpcodeInto(opcode) ==
    CASE opcode = "Continuation" -> 0
      [] opcode = "Text" -> 1
      [] opcode = "Binary" -> 2
      [] opcode = "Close" -> 8
      [] opcode = "Ping" -> 9
      [] opcode = "Pong" -> 10

Mask == {"Client", "Server"}

Opposite(m) == IF m = "Client" THEN "Server" ELSE "Client"

NoFrame == [fin |-> FALSE, opcode |-> "none", payload |-> <<>>]

RawFrame(fin, opcode, payload) == [fin |-> fin, opcode |-> opcode, payload |-> payload]

(***************************************************************************)
(* xor_payload: payload[i] ^= masking_key.to_be_bytes()[i % 4]             *)
(* (i counts from 0; the key is kept as its four big-endian bytes).        *)
(***************************************************************************)
xor_payload(masking_key, payload) ==
    [i \in 1..Len(payload) |-> Xor8(payload[i], masking_key[((i - 1) % 4) + 1])]

(***************************************************************************)
(* Manager::decode.  The outcome is a record:                              *)
(*   kind     "ok" | "err" | "panic" | "pending" (the read awaits bytes)   *)
(*   err      the InvalidFrame variant, or "Io" (read past the end)        *)
(*   at       the check of the source that returned                        *)
(*   raw      the operand of InvalidFrame::Opcode                          *)
(*   frame    the RawFrame of an "ok"                                      *)
(*   consumed the number of bytes read from the stream                     *)
(***************************************************************************)
DecodeOk(frame, used) ==
    [kind |-> "ok", err |-> "none", at |-> "return", raw |-> 0,
     frame |-> frame, consumed |-> used]

DecodeErr(e, where, raw, used) ==
    [kind |-> "err", err |-> e, at |-> where, raw |-> raw,
     frame |-> NoFrame, consumed |-> used]

DecodePanic(where, used) ==
    [kind |-> "panic", err |-> "none", at |-> where, raw |-> 0,
     frame |-> NoFrame, consumed |-> used]

\* A read that needs more bytes than the stream holds: an Io error
\* (UnexpectedEof) when the peer has shut the stream, else the future pends.
DecodeShort(eof, where, used) ==
    IF eof THEN DecodeErr("Io", where, 0, used)
    ELSE [kind |-> "pending", err |-> "none", at |-> where, raw |-> 0,
          frame |-> NoFrame, consumed |-> used]

NoResult == [kind |-> "none", err |-> "none", at |-> "none", raw |-> 0,
             frame |-> NoFrame, consumed |-> 0]

\* a mask one bit short: (octet >> 4) & 0b11
ReservedBitsTwoOnly(octet) == (octet \div 16) % 4

\* (octet >> 4) & 0b111
ReservedBits(octet) == (octet \div 16) % 8

\* match (fin, opcode) { (false, Ping | Pong | Close) | (true, Continuation) => Err }
FinOpcodeRejected(fin, opcode) ==
    \/ (~fin /\ opcode \in {"Ping", "Pong", "Close"})
    \/ (fin /\ opcode = "Continuation")

\* match self.mask { Client if !masked => (), Server if masked => (), _ => Err }
MaskAccepted(m, masked) ==
    \/ (m = "Client" /\ ~masked)
    \/ (m = "Server" /\ masked)

\* BytesMut::with_capacity(payload_length) has length 0, and read_exact fills
\* exactly the slice it is given.
PayloadBufLen(payload_length) == 0

decode_payload(m, stream, eof, fin, opcode, payload_length, header) ==
    IF payload_length > MAX_FRAME_PAYLOAD_SIZE
    THEN DecodeErr("PayloadSize", "size", 0, header)
    ELSE LET keylen == IF m = "Server" THEN 4 ELSE 0
             start == header + keylen
         IN IF Len(stream) < start THEN DecodeShort(eof, "masking_key", header)
            ELSE LET masking_key == SubSeq(stream, header + 1, start)
                     n == IF payload_length > 0 THEN PayloadBufLen(payload_length) ELSE 0
                 IN IF Len(stream) < start + n THEN DecodeShort(eof, "payload", start)
                    ELSE LET read == SubSeq(stream, start + 1, start + n)
                             payload == IF m = "Server" /\ payload_length > 0
                                        THEN xor_payload(masking_key, read)
                                        ELSE read
                         IN DecodeOk(RawFrame(fin, opcode, payload), start + n)

decode_length(m, checks, stream, eof, fin, opcode) ==
    IF Len(stream) < 2 THEN DecodeShort(eof, "octet2", 1)
    ELSE LET octet == stream[2]
             masked == Bit(octet, 7) # 0
         IN IF ~MaskAccepted(m, masked)
            THEN DecodeErr("PayloadSize", "mask", 0, 2)
            ELSE IF checks /\ ShlOverflows(DECODE_UNMASK_SHIFT)
            THEN DecodePanic("unmask_shift", 2)
            ELSE LET possible_payload_length ==
                         Xor8(octet, WrappingShl8(1, DECODE_UNMASK_SHIFT))
                 IN CASE possible_payload_length <= 125 ->
                           decode_payload(m, stream, eof, fin, opcode,
                                          possible_payload_length, 2)
                      [] possible_payload_length = 126 ->
                           IF Len(stream) < 4 THEN DecodeShort(eof, "read_u16", 2)
                           ELSE decode_payload(m, stream, eof, fin, opcode,
                                               BeValue(SubSeq(stream, 3, 4)), 4)
                      [] possible_payload_length = 127 ->
                           IF Len(stream) < 10 THEN DecodeShort(eof, "read_u64", 2)
                           ELSE decode_payload(m, stream, eof, fin, opcode,
                                               BeValue(SubSeq(stream, 3, 10)), 10)
                      [] OTHER -> DecodeErr("Inconsistent", "length_form", 0, 2)

decode(m, checks, stream, eof) ==
    IF Len(stream) < 1 THEN DecodeShort(eof, "octet1", 0)
    ELSE LET octet == stream[1]
             fin == Bit(octet, 7) # 0
         IN IF ReservedBits(octet) # 0
            THEN DecodeErr("Inconsistent", "reserved_bits", 0, 1)
            ELSE IF ~OpcodeKnown(octet % 16)
            THEN DecodeErr("Opcode", "opcode", octet % 16, 1)
            ELSE LET opcode == OpcodeTryFrom(octet % 16)
                 IN IF FinOpcodeRejected(fin, opcode)
                    THEN DecodeErr("Inconsistent", "fin_opcode", 0, 1)
                    ELSE decode_length(m, checks, stream, eof, fin, opcode)

(***************************************************************************)
(* Manager::encode.  The outcome is [kind |-> "ok" | "panic", bytes |-> the *)
(* bytes written to the stream before it returned or panicked].            *)
(***************************************************************************)
NoEncoded == [kind |-> "none", bytes |-> <<>>]

\* the length indicator of the second octet
LengthIndicator(payload_length) ==
    IF payload_length <= 125 THEN payload_length
    ELSE IF payload_length <= 65535 THEN 126
    ELSE 127

\* the extended length field written after the second octet
ExtendedLength(payload_length) ==
    IF payload_length <= 125 THEN <<>>
    ELSE IF payload_length <= 65535 THEN ToBeBytes(payload_length, 2)
    ELSE ToBeBytes(payload_length, 8)

encode(m, checks, raw_frame, masking_key) ==
    IF checks /\ ShlOverflows(ENCODE_FIN_SHIFT)
    THEN [kind |-> "panic", bytes |-> <<>>]
    ELSE LET fin == IF raw_frame.fin THEN 1 ELSE 0
             opcode == OpcodeInto(raw_frame.opcode)
             octet1 == Or8(WrappingShl8(fin, ENCODE_FIN_SHIFT), opcode)
             masked == IF m = "Client" THEN 1 ELSE 0
         IN IF checks /\ ShlOverflows(ENCODE_MASK_SHIFT)
            THEN [kind |-> "panic", bytes |-> <<octet1>>]
            ELSE LET payload_length == Len(raw_frame.payload)
                     octet2 == Or8(WrappingShl8(masked, ENCODE_MASK_SHIFT),
                                   LengthIndicator(payload_length))
                     key == IF m = "Client" THEN masking_key ELSE <<>>
                     payload == IF m = "Client"
                                THEN xor_payload(masking_key, raw_frame.payload)
                                ELSE raw_frame.payload
                 IN [kind |-> "ok",
                     bytes |-> <<octet1, octet2>> \o ExtendedLength(payload_length)
                               \o key \o payload]

(***************************************************************************)
(* Frame codec runs: Init draws either a RawFrame that one endpoint        *)
(* encodes and its peer decodes, or the bytes a peer put on the stream,    *)
(* which the endpoint decodes.                                             *)
(***************************************************************************)
PayloadBytes == {72, 255}

RECURSIVE SeqsUpTo(_, _)
SeqsUpTo(S, n) ==
    IF n = 0 THEN {<<>>}
    ELSE LET shorter == SeqsUpTo(S, n - 1)
         IN shorter \cup {Append(s, b) : s \in {t \in shorter : Len(t) = n - 1}, b \in S}

RawFrames ==
    {RawFrame(fin, opcode, payload) :
        fin \in BOOLEAN, opcode \in Opcode, payload \in SeqsUpTo(PayloadBytes, MaxPayloadLen)}

\* payload lengths on either side of the two length-form boundaries
BoundaryLengths == {125, 126, 65535, 65536}

\* final Binary frames with payloads of the boundary lengths
BoundaryFrames ==
    {RawFrame(TRUE, "Binary", [i \in 1..n |-> 97]) : n \in BoundaryLengths}

\* masking keys rand::random::<u32>() may return, as big-endian bytes
MaskingKeys == {<<0, 0, 0, 0>>, <<55, 250, 33, 61>>}

\* first octets: every fin / opcode pair the protocol defines, one unknown
\* opcode and one with RSV1 set
SomeFirstOctets == {0, 1, 2, 8, 9, 10, 128, 129, 130, 136, 137, 138, 131, 193}

\* second octets around the length forms, with the mask bit clear and set
SomeSecondOctets == {0, 1, 5, 124, 125, 126, 127, 128, 129, 133, 253, 254, 255}

\* what follows the second octet: extended lengths, masking keys, payloads
Tails ==
    { <<>>,
      <<72, 101, 108, 108, 111>>,
      <<55, 250, 33, 61, 127, 159, 77, 81, 88>>,
      <<0, 126, 55, 250, 33, 61>>,
      <<0, 0, 0, 0, 0, 0, 0, 200, 55, 250, 33, 61>>,
      <<0, 0, 0, 0, 1, 0, 0, 0, 55, 250, 33, 61>>,
      <<0, 0, 0, 0, 1, 0, 0, 1, 55, 250, 33, 61>>,
      <<128, 0, 0, 0, 0, 0, 0, 0, 55, 250, 33, 61>>,
      <<0, 126>> \o [i \in 1..126 |-> 97],
      <<0, 126, 55, 250, 33, 61>> \o [i \in 1..126 |-> 97] }

RawStreams ==
    {<<b1, b2>> \o t : b1 \in SomeFirstOctets, b2 \in SomeSecondOctets, t \in Tails}
    \cup {<<b1, b2>> \o t : b1 \in Byte, b2 \in {0, 128}, t \in {<<>>, <<55, 250, 33, 61>>}}
    \cup {<<b1>> : b1 \in {1, 129, 193}}
    \cup {<<>>}

(***************************************************************************)
(* StatusCode and its conversions from and to the u16 of a Close payload.  *)
(***************************************************************************)
StatusCode ==
    {"NormalClosure", "GoingAway", "ProtocolError", "UnkownType", "InconsistentData",
     "PolicyViolation", "MessageTooBig", "UnexpectedCondition"}

NoStatus == [kind |-> "none", status |-> "none", err |-> "none", raw |-> 0]

\* StatusCode::try_from(raw): Ok(code) or Err(InvalidFrame::Code(raw))
StatusCodeTryFrom(raw) ==
    LET Ok(code) == [kind |-> "ok", status |-> code, err |-> "none", raw |-> 0]
    IN CASE raw = 1000 -> Ok("NormalClosure")
         [] raw = 1001 -> Ok("GoingAway")
         [] raw = 1002 -> Ok("ProtocolError")
         [] raw = 1003 -> Ok("UnkownType")
         [] raw = 1007 -> Ok("InconsistentData")
         [] raw = 1008 -> Ok("PolicyViolation")
         [] raw = 1009 -> Ok("MessageTooBig")
         [] raw = 1011 -> Ok("UnexpectedCondition")
         [] OTHER -> [kind |-> "err", status |-> "none", err |-> "Code", raw |-> raw]

NoU16 == [kind |-> "none", value |-> 0]

\* u16::from(status): the value, or the panic of unreachable!()
StatusCodeInto(status) ==
    LET Value(v) == [kind |-> "ok", value |-> v]
    IN CASE status = "NormalClosure" -> Value(1000)
         [] status = "GoingAway" -> Value(1001)
         [] status = "ProtocolError" -> Value(1002)
         [] status = "UnkownType" -> Value(1003)
         [] status = "InconsistentData" -> Value(1007)
         [] status = "PolicyViolation" -> Value(1008)
         [] status = "MessageTooBig" -> Value(1009)
         [] status = "UnexpectedCondition" -> [kind |-> "panic", value |-> 0]

\* every u16
U16 == 0..65535

InitStatusIdle ==
    /\ spc = "idle"
    /\ sraw = 0
    /\ sparsed = NoStatus
    /\ sback = NoU16

\* no gateway function runs
NoParsed == [kind |-> "none"]

InitGatewayIdle ==
    /\ gside = "none"
    /\ gkey = ""
    /\ gscript = <<>>
    /\ gpeer = <<>>
    /\ geof = FALSE
    /\ gsock = <<>>
    /\ gbuf = <<>>
    /\ graw = <<>>
    /\ gpc = "idle"
    /\ gparsed = NoParsed
    /\ gout = <<>>
    /\ gresult = "none"
    /\ gengine = "none"
    /\ gengine_rx = <<>>

InitEngineIdle ==
    /\ mask = "Server"
    /\ manager = "running"
    /\ manager_exit = "none"
    /\ send_q = <<>>
    /\ receive_q = <<>>
    /\ send_rx_alive = TRUE
    /\ receive_tx_alive = TRUE
    /\ stop_rx_alive = TRUE
    /\ stop_sent = FALSE
    /\ rx_stream = <<>>
    /\ rx_eof = FALSE
    /\ tx_stream = <<>>
    /\ app = "idle"
    /\ send_log = <<>>
    /\ receive_log = <<>>
    /\ peer_log = <<>>
    /\ decoded = NoResult
    /\ pending_at_exit = FALSE

InitCodec ==
    /\ overflow_checks \in BOOLEAN
    /\ cmask \in Mask
    /\ \/ cpc = "frame" /\ craw \in RawFrames \cup BoundaryFrames /\ cstream = <<>>
       \/ cpc = "bytes" /\ craw = NoFrame /\ cstream \in RawStreams
    /\ cwritten = NoEncoded
    /\ cresult = NoResult
    /\ InitEngineIdle
    /\ InitGatewayIdle
    /\ InitStatusIdle

\* self.encode(raw_frame) on the endpoint whose mask is cmask
EncodeFrame ==
    /\ cpc = "frame"
    /\ \E masking_key \in MaskingKeys :
         /\ cwritten' = encode(cmask, overflow_checks, craw, masking_key)
         /\ cstream' = cwritten'.bytes
    /\ cpc' = "encoded"
    /\ UNCHANGED <<overflow_checks, cmask, craw, cresult, engineVars, gatewayVars, statusVars>>

\* the peer's self.decode() of what encode wrote; the peer runs the same code
\* with the opposite mask
DecodePeer ==
    /\ cpc = "encoded"
    /\ cresult' = decode(Opposite(cmask), overflow_checks, cstream, TRUE)
    /\ cpc' = "roundtrip"
    /\ UNCHANGED <<overflow_checks, cmask, craw, cstream, cwritten, engineVars, gatewayVars, statusVars>>

\* self.decode() of bytes a peer wrote
DecodeBytes ==
    /\ cpc = "bytes"
    /\ cresult' = decode(cmask, overflow_checks, cstream, TRUE)
    /\ cpc' = "decoded"
    /\ UNCHANGED <<overflow_checks, cmask, craw, cstream, cwritten, engineVars, gatewayVars, statusVars>>

NextCodec == EncodeFrame \/ DecodePeer \/ DecodeBytes

SpecCodec == InitCodec /\ [][NextCodec]_vars

(***************************************************************************)
(* The connection engine: Manager::start_manager spawns the manager task   *)
(* and returns the Controller; the application drives the Controller       *)
(* through Connection::send / receive / stop; the peer writes bytes to     *)
(* the stream.                                                             *)
(***************************************************************************)
Messages == {[kind |-> "Text", data |-> <<72>>], [kind |-> "Binary", data |-> <<255>>]}

\* A frame as the peer puts it on the wire (RFC 6455 framing, the peer of an
\* endpoint with mask m: masked when m = "Server").  Payloads stay below 126
\* bytes, so the length is always inline.
PeerKey == <<55, 250, 33, 61>>

PeerWire(m, frame) ==
    LET octet1 == IF frame.opcode = "Rsv1Text" THEN 193
                  ELSE (IF frame.fin THEN 128 ELSE 0) + OpcodeInto(frame.opcode)
        n == Len(frame.payload)
    IN IF m = "Server"
       THEN <<octet1, 128 + n>> \o PeerKey \o xor_payload(PeerKey, frame.payload)
       ELSE <<octet1, n>> \o frame.payload

\* what the peer sends over the life of a connection: one of these frame
\* sequences, or a prefix of it
TextWhole == RawFrame(TRUE, "Text", <<72>>)
TextFirst == RawFrame(FALSE, "Text", <<97>>)
ContinuationMiddle == RawFrame(FALSE, "Continuation", <<98>>)
ContinuationLast == RawFrame(TRUE, "Continuation", <<99>>)
PingFrame == RawFrame(TRUE, "Ping", <<112>>)
CloseFrame == RawFrame(TRUE, "Close", <<3, 232>>)
\* a protocol violation: a Text frame with RSV1 set (first octet C1)
Rsv1Frame == RawFrame(TRUE, "Rsv1Text", <<>>)

PeerScripts ==
    { <<TextWhole, PingFrame, CloseFrame>>,
      <<TextFirst, ContinuationLast, TextWhole>>,
      <<TextFirst, PingFrame, ContinuationLast>>,
      <<TextFirst, ContinuationMiddle, ContinuationLast, CloseFrame>>,
      <<PingFrame, TextWhole, CloseFrame>>,
      <<CloseFrame>>,
      <<Rsv1Frame>> }

PeerFrames == UNION {{script[i] : i \in DOMAIN script} : script \in PeerScripts}

IsPrefix(s, t) == Len(s) <= Len(t) /\ s = SubSeq(t, 1, Len(s))

Init ==
    /\ overflow_checks \in BOOLEAN
    /\ mask \in Mask
    /\ manager = "running"
    /\ manager_exit = "none"
    /\ send_q = <<>>
    /\ receive_q = <<>>
    /\ send_rx_alive = TRUE
    /\ receive_tx_alive = TRUE
    /\ stop_rx_alive = TRUE
    /\ stop_sent = FALSE
    /\ rx_stream = <<>>
    /\ rx_eof = FALSE
    /\ tx_stream = <<>>
    /\ app = "idle"
    /\ send_log = <<>>
    /\ receive_log = <<>>
    /\ peer_log = <<>>
    /\ decoded = NoResult
    /\ pending_at_exit = FALSE
    /\ cmask = "Server"
    /\ cpc = "idle"
    /\ craw = NoFrame
    /\ cstream = <<>>
    /\ cwritten = NoEncoded
    /\ cresult = NoResult
    /\ InitGatewayIdle
    /\ InitStatusIdle

\* ---- Controller (the application's side) ----

\* send_tx.send_async(message).await.map_err(|_| ConnectionClosed): flume
\* refuses the message once every receiver is dropped
send_result_always_ok == "Ok"

send_result == IF send_rx_alive THEN "Ok" ELSE "ConnectionClosed"

Send(message) ==
    /\ app \in {"idle", "receiving"}
    /\ Len(send_log) < MaxSends
    /\ send_q' = IF send_rx_alive THEN Append(send_q, message) ELSE send_q
    /\ send_log' = Append(send_log, [message |-> message, result |-> send_result,
                                     manager |-> manager, before |-> send_q,
                                     queued |-> send_q'])
    /\ UNCHANGED <<overflow_checks, codecVars, gatewayVars, statusVars, mask, manager, manager_exit, receive_q,
                   send_rx_alive, receive_tx_alive, stop_rx_alive, stop_sent, rx_stream,
                   rx_eof, tx_stream, app, receive_log, peer_log, decoded,
                   pending_at_exit>>

\* receive_rx.recv_async() is created and pends
ReceiveCall ==
    /\ app = "idle"
    /\ Len(receive_log) < MaxReceives
    /\ app' = "receiving"
    /\ UNCHANGED <<overflow_checks, codecVars, gatewayVars, statusVars, mask, manager, manager_exit, send_q,
                   receive_q, send_rx_alive, receive_tx_alive, stop_rx_alive, stop_sent,
                   rx_stream, rx_eof, tx_stream, send_log, receive_log, peer_log,
                   decoded, pending_at_exit>>

\* recv_async resolves: with the oldest queued message, or, when the queue
\* is empty and every sender is dropped, with an error that receive maps to
\* ConnectionClosed
receive_ready == receive_q # <<>> \/ ~receive_tx_alive

receive_result == IF receive_q # <<>> THEN "Ok" ELSE "ConnectionClosed"

ReceiveReturn ==
    /\ app = "receiving"
    /\ receive_ready
    /\ receive_log' = Append(receive_log,
                             [result |-> receive_result,
                              message |-> IF receive_q # <<>> THEN <<Head(receive_q)>>
                                          ELSE <<>>,
                              queue |-> receive_q, manager |-> manager])
    /\ receive_q' = IF receive_q # <<>> THEN Tail(receive_q) ELSE receive_q
    /\ app' = "idle"
    /\ UNCHANGED <<overflow_checks, codecVars, gatewayVars, statusVars, mask, manager, manager_exit, send_q,
                   send_rx_alive, receive_tx_alive, stop_rx_alive, stop_sent, rx_stream,
                   rx_eof, tx_stream, send_log, peer_log, decoded, pending_at_exit>>

\* stop, first half: self.stop_tx.send(()), its result ignored
StopSignal ==
    /\ app = "idle"
    /\ app' = "stopping"
    /\ stop_sent' = stop_rx_alive
    /\ UNCHANGED <<overflow_checks, codecVars, gatewayVars, statusVars, mask, manager, manager_exit, send_q,
                   receive_q, send_rx_alive, receive_tx_alive, stop_rx_alive, rx_stream,
                   rx_eof, tx_stream, send_log, receive_log, peer_log, decoded,
                   pending_at_exit>>

\* stop, second half: self.manager_handler.await resolves once the task has
\* ended (here with a JoinError, which is ignored)
StopJoin ==
    /\ app = "stopping"
    /\ manager # "running"
    /\ app' = "stopped"
    /\ UNCHANGED <<overflow_checks, codecVars, gatewayVars, statusVars, mask, manager, manager_exit, send_q,
                   receive_q, send_rx_alive, receive_tx_alive, stop_rx_alive, stop_sent,
                   rx_stream, rx_eof, tx_stream, send_log, receive_log, peer_log,
                   decoded, pending_at_exit>>

\* the Connection goes out of scope without stop: send_tx, receive_rx and
\* stop_tx are dropped (the JoinHandle detaches)
DropConnection ==
    /\ app = "idle"
    /\ app' = "dropped"
    /\ UNCHANGED <<overflow_checks, codecVars, gatewayVars, statusVars, mask, manager, manager_exit, send_q,
                   receive_q, send_rx_alive, receive_tx_alive, stop_rx_alive, stop_sent,
                   rx_stream, rx_eof, tx_stream, send_log, receive_log, peer_log,
                   decoded, pending_at_exit>>

\* ---- the peer ----

PeerWrite(frame) ==
    /\ manager = "running"
    /\ ~rx_eof
    /\ Len(peer_log) < MaxPeerFrames
    /\ \E script \in PeerScripts : IsPrefix(Append(peer_log, frame), script)
    /\ rx_stream' = rx_stream \o PeerWire(mask, frame)
    /\ peer_log' = Append(peer_log, frame)
    /\ UNCHANGED <<overflow_checks, codecVars, gatewayVars, statusVars, mask, manager, manager_exit, send_q,
                   receive_q, send_rx_alive, receive_tx_alive, stop_rx_alive, stop_sent,
                   rx_eof, tx_stream, app, send_log, receive_log, decoded,
                   pending_at_exit>>

PeerShutdown ==
    /\ manager = "running"
    /\ ~rx_eof
    /\ rx_eof' = TRUE
    /\ UNCHANGED <<overflow_checks, codecVars, gatewayVars, statusVars, mask, manager, manager_exit, send_q,
                   receive_q, send_rx_alive, receive_tx_alive, stop_rx_alive, stop_sent,
                   rx_stream, tx_stream, app, send_log, receive_log, peer_log, decoded,
                   pending_at_exit>>

\* ---- the manager task: loop { tokio::select! { ... } } ----

\* Every branch body is todo!(): the task panics, tokio drops the task's
\* future and with it send_rx, receive_tx, stop_rx and the stream.
TaskPanicsKeepingReceiveTx(branch) ==
    /\ manager' = "panicked"
    /\ manager_exit' = branch
    /\ send_rx_alive' = FALSE
    /\ receive_tx_alive' = receive_tx_alive
    /\ stop_rx_alive' = FALSE
    /\ pending_at_exit' = (app = "receiving")

TaskPanics(branch) ==
    /\ manager' = "panicked"
    /\ manager_exit' = branch
    /\ send_rx_alive' = FALSE
    /\ receive_tx_alive' = FALSE
    /\ stop_rx_alive' = FALSE
    /\ pending_at_exit' = (app = "receiving")

\* message = send_rx.recv_async() => { todo!() }: the message leaves the
\* queue (or the channel reports every sender dropped) and the body panics
ManagerMessage ==
    /\ manager = "running"
    /\ send_q # <<>> \/ app = "dropped"
    /\ send_q' = IF send_q # <<>> THEN Tail(send_q) ELSE send_q
    /\ TaskPanics("message")
    /\ UNCHANGED <<overflow_checks, codecVars, gatewayVars, statusVars, mask, receive_q, stop_sent, rx_stream,
                   rx_eof, tx_stream, app, send_log, receive_log, peer_log, decoded>>

\* raw_frame = manager.decode() => { todo!() }: decode resolves (Ok or Err)
\* and the body panics, or decode itself panics
ManagerFrame ==
    /\ manager = "running"
    /\ LET r == decode(mask, overflow_checks, rx_stream, rx_eof)
       IN /\ r.kind # "pending"
          /\ decoded' = r
          /\ rx_stream' = Drop(rx_stream, r.consumed)
    /\ TaskPanics("frame")
    /\ UNCHANGED <<overflow_checks, codecVars, gatewayVars, statusVars, mask, send_q, receive_q, stop_sent,
                   rx_eof, tx_stream, app, send_log, receive_log, peer_log>>

\* a stop branch that takes the value out of the oneshot and goes round the
\* loop again, the task still running
ManagerStopKeepsRunning ==
    /\ manager = "running"
    /\ stop_sent
    /\ stop_sent' = FALSE
    /\ UNCHANGED <<overflow_checks, codecVars, gatewayVars, statusVars, mask, manager,
                   manager_exit, send_q, receive_q, send_rx_alive, receive_tx_alive,
                   stop_rx_alive, rx_stream, rx_eof, tx_stream, app, send_log,
                   receive_log, peer_log, decoded, pending_at_exit>>

\* _ = stop_rx => { todo!() }: the oneshot resolves with the value, or with
\* an error when stop_tx was dropped, and the body panics
ManagerStop ==
    /\ manager = "running"
    /\ stop_sent \/ app = "dropped"
    /\ TaskPanics("stop")
    /\ UNCHANGED <<overflow_checks, codecVars, gatewayVars, statusVars, mask, send_q, receive_q, stop_sent,
                   rx_stream, rx_eof, tx_stream, app, send_log, receive_log, peer_log,
                   decoded>>

ManagerNext == ManagerMessage \/ ManagerFrame \/ ManagerStop

Next ==
    \/ \E message \in Messages : Send(message)
    \/ ReceiveCall
    \/ ReceiveReturn
    \/ StopSignal
    \/ StopJoin
    \/ DropConnection
    \/ \E frame \in PeerFrames : PeerWrite(frame)
    \/ PeerShutdown
    \/ ManagerMessage
    \/ ManagerFrame
    \/ ManagerStop

Spec == Init /\ [][Next]_vars

\* tokio polls a woken task: the manager when one of its three sources is
\* ready, the application's receive and join futures when they can resolve.
FairSpec ==
    /\ Spec
    /\ WF_vars(ManagerNext)
    /\ WF_vars(ReceiveReturn)
    /\ WF_vars(StopJoin)

(***************************************************************************)
(* The opening handshake (handshake.rs).  An HTTP message is the sequence  *)
(* of its lines, each ending in CRLF: a request or status line, header     *)
(* lines and the empty line that ends the header section.  What follows    *)
(* on the stream are the bytes of WebSocket frames.                        *)
(***************************************************************************)
MAGIC_STRING == "258EAFA5-E914-47DA-95CA-C5AB0DC85B11"

RequestLine(method, path, version) ==
    [t |-> "request", method |-> method, path |-> path, version |-> version]
StatusLine(version, code) == [t |-> "status", version |-> version, code |-> code]
HeaderLine(name, value) == [t |-> "header", name |-> name, value |-> value]
EndLine == [t |-> "end"]
\* a line httparse rejects (an invalid token where the method or the version
\* must stand)
GarbageLine == [t |-> "garbage"]
DataByte(b) == [t |-> "byte", b |-> b]

\* Option::None of the integer fields of a parsed message
NoneInt == -1

\* the ASCII lower case of the header names that occur in the model
AsciiLower(name) ==
    CASE name \in {"Host", "host", "HOST"} -> "host"
      [] name \in {"Upgrade", "upgrade", "UPGRADE"} -> "upgrade"
      [] name \in {"Connection", "connection"} -> "connection"
      [] name \in {"Sec-WebSocket-Key", "sec-websocket-key"} -> "sec-websocket-key"
      [] name \in {"Sec-WebSocket-Version", "sec-websocket-version"}
            -> "sec-websocket-version"
      [] name \in {"Sec-WebSocket-Accept", "sec-websocket-accept"}
            -> "sec-websocket-accept"
      [] name \in {"Sec-WebSocket-Extensions", "sec-websocket-extensions"}
            -> "sec-websocket-extensions"
      [] name \in {"Sec-WebSocket-Protocol", "sec-websocket-protocol"}
            -> "sec-websocket-protocol"
      [] OTHER -> name

eq_ignore_ascii_case(a, b) == AsciiLower(a) = AsciiLower(b)

\* HeaderObserver: the name without regard to case, the value byte for byte
is_key(h, key) == eq_ignore_ascii_case(h.name, key)

is_any_key(h, keys) == \E k \in keys : is_key(h, k)

is(h, key, value) == is_key(h, key) /\ h.value = value

\* BASE64_STANDARD.decode(value): the number of bytes decoded, -1 for Err
Base64DecodedLen(value) ==
    CASE value = "dGhlIHNhbXBsZSBub25jZQ==" -> 16
      [] value = "AAAAAAAAAAAAAAAAAAAAAA==" -> 16
      [] value = "YWJjZA==" -> 4
      [] value = "" -> 0
      [] OTHER -> -1

Base64DecodeIsOk(value) == Base64DecodedLen(value) >= 0

\* Key::generate: the base64 text of 16 random bytes
GeneratedKeys == {"dGhlIHNhbXBsZSBub25jZQ==", "AAAAAAAAAAAAAAAAAAAAAA=="}

\* Key::encoded_hash: base64(SHA1(key ++ MAGIC_STRING))
encoded_hash(key) ==
    CASE key = "dGhlIHNhbXBsZSBub25jZQ==" -> "s3pPLMBiTxaQ9kYGzzhZRbK+xOo="
      [] key = "AAAAAAAAAAAAAAAAAAAAAA==" -> "ICX+Yqv66kxgM0FcWaLWlFLwTAI="
      [] key = "YWJjZA==" -> "rExF+buAbUPcUAMmQC41vytbjeg="
      [] OTHER -> "base64(SHA1(" \o key \o MAGIC_STRING \o "))"

\* ClientHandshake::raw_request
raw_request(key, addr) ==
    << RequestLine("GET", "/chat", 1),
       HeaderLine("Upgrade", "websocket"),
       HeaderLine("Connection", "Upgrade"),
       HeaderLine("Sec-WebSocket-Version", "13"),
       HeaderLine("Sec-WebSocket-Key", key),
       HeaderLine("Host", addr),
       EndLine >>

\* ServerHanshake::into_raw_response
into_raw_response(key) ==
    << StatusLine(1, 101),
       HeaderLine("Sec-WebSocket-Accept", encoded_hash(key)),
       HeaderLine("Upgrade", "websocket"),
       HeaderLine("Connection", "Upgrade"),
       EndLine >>

\* the response accept writes when the handshake is refused
BadRequest == <<StatusLine(1, 400), EndLine>>

\* the header lines of a raw message
HeaderLines(raw) ==
    LET lines == SelectSeq(raw, LAMBDA l : l.t = "header")
    IN [k \in 1..Len(lines) |-> [name |-> lines[k].name, value |-> lines[k].value]]

\* parse_request: httparse::Request::parse returns Partial on an empty buffer
\* and leaves every field None; a line it cannot parse is an error, which
\* map_err turns into the HttpRequestParser error
parse_request(raw) ==
    IF raw = <<>>
    THEN [kind |-> "ok", method |-> "None", path |-> "None", version |-> NoneInt,
          code |-> NoneInt, headers |-> <<>>]
    ELSE IF raw[1].t # "request"
    THEN [kind |-> "err", error |-> "HttpRequestParser"]
    ELSE [kind |-> "ok", method |-> raw[1].method, path |-> raw[1].path,
          version |-> raw[1].version, code |-> NoneInt, headers |-> HeaderLines(raw)]

\* parse_response, likewise with httparse::Response::parse
parse_response(raw) ==
    IF raw = <<>>
    THEN [kind |-> "ok", method |-> "None", path |-> "None", version |-> NoneInt,
          code |-> NoneInt, headers |-> <<>>]
    ELSE IF raw[1].t # "status"
    THEN [kind |-> "err", error |-> "HttpResponseParser"]
    ELSE [kind |-> "ok", method |-> "None", path |-> "None",
          version |-> raw[1].version, code |-> raw[1].code, headers |-> HeaderLines(raw)]

\* how many headers took branch slot of an if / else-if chain
CountSlot(slots, slot) == Cardinality({k \in DOMAIN slots : slots[k] = slot})

\* the branch of is_valid_response's chain a header takes
ClientHeaderSlot(key, h) ==
    IF is(h, "Upgrade", "websocket") THEN "upgrade"
    ELSE IF is(h, "Connection", "Upgrade") THEN "connection"
    ELSE IF is_key(h, "Sec-WebSocket-Accept")
    THEN (IF encoded_hash(key) = h.value THEN "valid_key" ELSE "return_false")
    ELSE IF is_any_key(h, {"Sec-WebSocket-Extensions", "Sec-WebSocket-Protocol"})
    THEN "return_false"
    ELSE "skip"

\* ClientHandshake::is_valid_response
is_valid_response(key, response) ==
    IF ~(response.version = 1 /\ response.code = 101) THEN FALSE
    ELSE LET slots == [k \in DOMAIN response.headers
                          |-> ClientHeaderSlot(key, response.headers[k])]
             contains_headers == <<CountSlot(slots, "upgrade"),
                                   CountSlot(slots, "connection")>>
             valid_key == CountSlot(slots, "valid_key") > 0
         IN /\ CountSlot(slots, "return_false") = 0
            /\ \A c \in DOMAIN contains_headers : contains_headers[c] > 0
            /\ valid_key

\* the branch of from_request's chain a header takes (0: none)
ServerHeaderSlot(h) ==
    IF is_key(h, "Host") THEN 1
    ELSE IF is(h, "Upgrade", "websocket") THEN 2
    ELSE IF is(h, "Connection", "Upgrade") THEN 3
    ELSE IF is_key(h, "Sec-WebSocket-Key") /\ Base64DecodeIsOk(h.value) THEN 4
    ELSE IF is(h, "Sec-WebSocket-Version", "13") THEN 5
    ELSE 0

NoHandshake == [some |-> FALSE, key |-> ""]

\* ServerHanshake::from_request: None, or Some(handshake) holding the value
\* of the last Sec-WebSocket-Key header that decodes
from_request(request) ==
    IF ~(request.method = "GET" /\ request.path = "/" /\ request.version = 1)
    THEN NoHandshake
    ELSE LET slots == [k \in DOMAIN request.headers |-> ServerHeaderSlot(request.headers[k])]
             contains_headers == [i \in 1..5 |-> CountSlot(slots, i)]
             keys == {k \in DOMAIN slots : slots[k] = 4}
         IN IF \A i \in 1..5 : contains_headers[i] > 0
            THEN [some |-> TRUE,
                  key |-> request.headers[CHOOSE k \in keys : \A j \in keys : j <= k].value]
            ELSE NoHandshake

\* ServerHanshake::try_from_request, which accept calls: from_request with
\* None surfaced as the NonConformant handshake error
try_from_request(request) ==
    LET handshake == from_request(request)
    IN IF handshake.some THEN [kind |-> "ok", key |-> handshake.key, error |-> "none"]
       ELSE [kind |-> "err", key |-> "", error |-> "NonConformant"]

\* ClientHandshake::validate_response, which connect calls: is_valid_response
\* with false surfaced as the NonConformant handshake error
validate_response(key, response) ==
    IF is_valid_response(key, response) THEN "ok" ELSE "NonConformant"

(***************************************************************************)
(* The gateway (gateway.rs): accept and connect run the handshake over a   *)
(* BufStream and hand its TcpStream to a connection engine.  The peer      *)
(* sends a header section and may send the bytes of frames behind it.      *)
(***************************************************************************)
\* the address connect dials, as format!("{}", addr) prints it
Addr == "127.0.0.1:9001"

\* bytes the peer sends behind its header section (a masked empty Ping)
ResidualBytes == <<137, 128, 55, 250, 33, 61>>

Residuals ==
    {[i \in 1..n |-> DataByte(ResidualBytes[i])] : n \in 0..MaxResidual}

\* a request with the given path, key and headers in the order and spelling
\* of another client
Request(path, key) ==
    << RequestLine("GET", path, 1),
       HeaderLine("host", Addr),
       HeaderLine("UPGRADE", "websocket"),
       HeaderLine("Connection", "Upgrade"),
       HeaderLine("Sec-WebSocket-Key", key),
       HeaderLine("Sec-WebSocket-Version", "13"),
       EndLine >>

\* s without its i-th element
Without(s, i) == SubSeq(s, 1, i - 1) \o SubSeq(s, i + 1, Len(s))

\* s with its i-th element twice
Twice(s, i) == SubSeq(s, 1, i) \o SubSeq(s, i, Len(s))

\* header sections a client may send to accept
RequestSections ==
    {raw_request(key, Addr) : key \in GeneratedKeys}
    \cup {Request("/", key) : key \in {"dGhlIHNhbXBsZSBub25jZQ==", "YWJjZA==", "not base64"}}
    \cup {Without(Request("/", "dGhlIHNhbXBsZSBub25jZQ=="), i) : i \in 2..6}
    \cup {<<RequestLine("POST", "/", 1), EndLine>>,
          <<GarbageLine, EndLine>>,
          <<>>}

\* header sections a server may send to a connect that holds key
ResponseSections(key) ==
    {into_raw_response(k) : k \in GeneratedKeys}
    \cup {Without(into_raw_response(key), i) : i \in 2..4}
    \cup {Twice(into_raw_response(key), i) : i \in 3..4}
    \cup {<<StatusLine(1, 101),
            HeaderLine("sec-websocket-accept", encoded_hash(key)),
            HeaderLine("upgrade", "websocket"),
            HeaderLine("connection", "Upgrade"),
            HeaderLine("Sec-WebSocket-Protocol", "chat"),
            EndLine>>,
          <<StatusLine(1, 200), EndLine>>,
          <<GarbageLine, EndLine>>,
          <<>>}

\* an empty header section is a peer that closes at once
Scripts(sections) ==
    {section \o (IF section = <<>> THEN <<>> ELSE residual) :
        section \in sections, residual \in Residuals}

InitCodecIdle ==
    /\ cmask = "Server"
    /\ cpc = "idle"
    /\ craw = NoFrame
    /\ cstream = <<>>
    /\ cwritten = NoEncoded
    /\ cresult = NoResult

InitGateway ==
    /\ overflow_checks = FALSE
    /\ InitCodecIdle
    /\ InitEngineIdle
    /\ \/ /\ gside = "accept"
          /\ gkey = ""
          /\ gscript \in Scripts(RequestSections)
          /\ gpc = "read_raw_http"
       \/ /\ gside = "connect"
          /\ gkey \in GeneratedKeys
          /\ gscript \in Scripts(ResponseSections(gkey))
          /\ gpc = "write_request"
    /\ gpeer = gscript
    /\ geof = FALSE
    /\ gsock = <<>>
    /\ gbuf = <<>>
    /\ graw = <<>>
    /\ gparsed = NoParsed
    /\ gout = <<>>
    /\ gresult = "none"
    /\ gengine = "none"
    /\ gengine_rx = <<>>
    /\ InitStatusIdle

\* ---- the peer ----

\* the next k tokens of the peer arrive; a server answers a request
GatewayPeerSend(k) ==
    /\ k \in 1..Len(gpeer)
    /\ gside = "connect" => gout # <<>>
    /\ gsock' = gsock \o SubSeq(gpeer, 1, k)
    /\ gpeer' = SubSeq(gpeer, k + 1, Len(gpeer))
    /\ UNCHANGED <<overflow_checks, codecVars, engineVars, statusVars, gside, gkey, gscript, geof,
                   gbuf, graw, gpc, gparsed, gout, gresult, gengine, gengine_rx>>

GatewayPeerClose ==
    /\ gpeer = <<>>
    /\ ~geof
    /\ gside = "connect" => gout # <<>>
    /\ geof' = TRUE
    /\ UNCHANGED <<overflow_checks, codecVars, engineVars, statusVars, gside, gkey, gscript, gpeer,
                   gsock, gbuf, graw, gpc, gparsed, gout, gresult, gengine, gengine_rx>>

\* ---- accept / connect ----

\* connect: buf.write_raw_http(&handshake.raw_request())
ConnectWriteRequest ==
    /\ gside = "connect"
    /\ gpc = "write_request"
    /\ gout' = gout \o raw_request(gkey, Addr)
    /\ gpc' = "read_raw_http"
    /\ UNCHANGED <<overflow_checks, codecVars, engineVars, statusVars, gside, gkey, gscript, gpeer,
                   geof, gsock, gbuf, graw, gparsed, gresult, gengine, gengine_rx>>

\* raw.ends_with(b"\r\n\r\n"): an empty line behind a line
EndsHeaderSection(raw) == Len(raw) >= 2 /\ raw[Len(raw)].t = "end"

\* one turn of the loop of Buf::read_raw_http: read_until(b'\n') fills the
\* read buffer with everything that arrived when the buffer is empty, then
\* moves one line from the buffer to raw; it returns 0 at end of stream
ReadUntil ==
    /\ gpc = "read_raw_http"
    /\ gbuf # <<>> \/ gsock # <<>> \/ geof
    /\ LET filled == IF gbuf # <<>> THEN gbuf ELSE gsock
       IN IF filled = <<>>
          THEN /\ gpc' = "parse"
               /\ UNCHANGED <<graw, gbuf, gsock>>
          ELSE /\ graw' = Append(graw, Head(filled))
               /\ gbuf' = Tail(filled)
               /\ gsock' = IF gbuf # <<>> THEN gsock ELSE <<>>
               /\ gpc' = IF EndsHeaderSection(graw') THEN "parse" ELSE "read_raw_http"
    /\ UNCHANGED <<overflow_checks, codecVars, engineVars, statusVars, gside, gkey, gscript, gpeer,
                   geof, gparsed, gout, gresult, gengine, gengine_rx>>

\* parse_request(..)? / parse_response(..)?: an error returns from the
\* gateway function at once
ParseRaw ==
    /\ gpc = "parse"
    /\ gparsed' = IF gside = "accept" THEN parse_request(graw) ELSE parse_response(graw)
    /\ IF gparsed'.kind = "err"
       THEN gresult' = gparsed'.error /\ gpc' = "returned"
       ELSE gresult' = gresult /\ gpc' = "validate"
    /\ UNCHANGED <<overflow_checks, codecVars, engineVars, statusVars, gside, gkey, gscript, gpeer,
                   geof, gsock, gbuf, graw, gout, gengine, gengine_rx>>

\* accept: the match on try_from_request, which writes 400 Bad Request and
\* returns the error, or writes the 101 response
AcceptRespond ==
    /\ gside = "accept"
    /\ gpc = "validate"
    /\ LET handshake == try_from_request(gparsed)
       IN IF handshake.kind = "err"
          THEN /\ gout' = gout \o BadRequest
               /\ gresult' = handshake.error
               /\ gpc' = "returned"
          ELSE /\ gout' = gout \o into_raw_response(handshake.key)
               /\ gresult' = gresult
               /\ gpc' = "handoff"
    /\ UNCHANGED <<overflow_checks, codecVars, engineVars, statusVars, gside, gkey, gscript, gpeer,
                   geof, gsock, gbuf, graw, gparsed, gengine, gengine_rx>>

\* connect: handshake.validate_response(&response)?
ConnectValidate ==
    /\ gside = "connect"
    /\ gpc = "validate"
    /\ LET outcome == validate_response(gkey, gparsed)
       IN IF outcome = "ok"
          THEN gresult' = gresult /\ gpc' = "handoff"
          ELSE gresult' = outcome /\ gpc' = "returned"
    /\ UNCHANGED <<overflow_checks, codecVars, engineVars, statusVars, gside, gkey, gscript, gpeer,
                   geof, gsock, gbuf, graw, gparsed, gout, gengine, gengine_rx>>

\* buf.into(), which is BufStream::into_inner: the TcpStream comes out and
\* the read buffer goes away with the BufStream; then the engine is built
\* on the TcpStream and the gateway function returns Ok(connection)
Handoff ==
    /\ gpc = "handoff"
    /\ gbuf' = <<>>
    /\ gengine' = IF gside = "accept" THEN "Server" ELSE "Client"
    /\ gresult' = "Ok"
    /\ gpc' = "open"
    /\ UNCHANGED <<overflow_checks, codecVars, engineVars, statusVars, gside, gkey, gscript, gpeer,
                   geof, gsock, graw, gparsed, gout, gengine_rx>>

\* the engine's decode reads the next byte of its TcpStream
EngineRead ==
    /\ gpc = "open"
    /\ gsock # <<>>
    /\ gengine_rx' = Append(gengine_rx, Head(gsock))
    /\ gsock' = Tail(gsock)
    /\ UNCHANGED <<overflow_checks, codecVars, engineVars, statusVars, gside, gkey, gscript, gpeer,
                   geof, gbuf, graw, gpc, gparsed, gout, gresult, gengine>>

NextGateway ==
    \/ \E k \in 1..Len(gpeer) : GatewayPeerSend(k)
    \/ GatewayPeerClose
    \/ ConnectWriteRequest
    \/ ReadUntil
    \/ ParseRaw
    \/ AcceptRespond
    \/ ConnectValidate
    \/ Handoff
    \/ EngineRead

SpecGateway == InitGateway /\ [][NextGateway]_vars

(***************************************************************************)
(* Status code runs: Init draws a u16, StatusCode::try_from parses it and  *)
(* u16::from converts the StatusCode back.                                 *)
(***************************************************************************)
InitStatus ==
    /\ overflow_checks = FALSE
    /\ InitCodecIdle
    /\ InitEngineIdle
    /\ InitGatewayIdle
    /\ spc = "raw"
    /\ sraw \in U16
    /\ sparsed = NoStatus
    /\ sback = NoU16

\* StatusCode::try_from(raw)
StatusTryFrom ==
    /\ spc = "raw"
    /\ sparsed' = StatusCodeTryFrom(sraw)
    /\ spc' = "parsed"
    /\ UNCHANGED <<overflow_checks, codecVars, engineVars, gatewayVars, sraw, sback>>

\* u16::from(code) on the StatusCode that try_from returned
StatusInto ==
    /\ spc = "parsed"
    /\ sparsed.kind = "ok"
    /\ sback' = StatusCodeInto(sparsed.status)
    /\ spc' = "converted"
    /\ UNCHANGED <<overflow_checks, codecVars, engineVars, gatewayVars, sraw, sparsed>>

NextStatus == StatusTryFrom \/ StatusInto

SpecStatus == InitStatus /\ [][NextStatus]_vars

(***************************************************************************)
(* Properties of the frame codec (checked under SpecCodec).                *)
(***************************************************************************)
\* What the protocol (spec 3, invariants 1-2; 4.B step 2) allows.
ControlOpcode(opcode) == opcode \in {"Close", "Ping", "Pong"}

LegalFinOpcode(fin, opcode) == ControlOpcode(opcode) => fin

RsvSet(octet) == Bit(octet, 4) + Bit(octet, 5) + Bit(octet, 6) > 0

ProtocolFirstOctet(octet) ==
    /\ ~RsvSet(octet)
    /\ OpcodeKnown(octet % 16)
    /\ LegalFinOpcode(Bit(octet, 7) = 1, OpcodeTryFrom(octet % 16))

\* the mask bit of the second octet breaks the policy of a decoder with mask m
MaskViolation(m, octet) ==
    \/ (m = "Server" /\ Bit(octet, 7) = 0)
    \/ (m = "Client" /\ Bit(octet, 7) = 1)

\* the payload length a second octet and the bytes after it announce
AnnouncedLength(stream) ==
    LET len7 == stream[2] % 128
    IN CASE len7 <= 125 -> len7
         [] len7 = 126 -> BeValue(SubSeq(stream, 3, 4))
         [] len7 = 127 -> BeValue(SubSeq(stream, 3, 10))

\* the bytes before the payload: two octets, the extended length, the key
HeaderLength(m, stream) ==
    LET len7 == stream[2] % 128
    IN 2 + (CASE len7 <= 125 -> 0 [] len7 = 126 -> 2 [] len7 = 127 -> 8)
         + (IF m = "Server" THEN 4 ELSE 0)

\* the stream holds one whole frame for a decoder with mask m
WholeFrame(m, stream) ==
    /\ Len(stream) >= 2
    /\ Len(stream) >= HeaderLength(m, stream)
    /\ AnnouncedLength(stream) < SatCap
    /\ Len(stream) = HeaderLength(m, stream) + AnnouncedLength(stream)

\* C1: for every RawFrame whose opcode is legal for its fin, and either role,
\* the peer's decode of what encode wrote returns a RawFrame with the same
\* fin, opcode and payload.
C1_RoundTrip ==
    (cpc = "roundtrip" /\ LegalFinOpcode(craw.fin, craw.opcode))
        => (cresult.kind = "ok" /\ cresult.frame = craw)

\* C2: a decoder fails with PayloadSize on every frame whose mask bit breaks
\* its policy (Server: clear, Client: set), having read nothing past the
\* second octet.
C2_MaskPolicy ==
    (/\ cpc = "decoded"
     /\ Len(cstream) >= 2
     /\ ProtocolFirstOctet(cstream[1])
     /\ MaskViolation(cmask, cstream[2]))
        => (cresult.kind = "err" /\ cresult.err = "PayloadSize" /\ cresult.consumed = 2)

\* C3: every first octet with one of RSV1..RSV3 set makes decode fail with
\* Inconsistent, whatever its fin bit and opcode nibble; a first octet with
\* the three bits zero never fails the reserved-bit check.
C3_ReservedBits ==
    (cpc = "decoded" /\ Len(cstream) >= 1)
        => /\ RsvSet(cstream[1])
                => (cresult.kind = "err" /\ cresult.err = "Inconsistent"
                    /\ cresult.at = "reserved_bits" /\ cresult.consumed = 1)
           /\ ~RsvSet(cstream[1]) => cresult.at # "reserved_bits"

\* a first octet with RSV3 alone set and an unknown opcode was rejected
C3_Witness ==
    /\ cpc = "decoded"
    /\ Len(cstream) >= 1
    /\ cstream[1] = 147
    /\ cresult.err = "Inconsistent"

\* C4: decode fails with Inconsistent on every control frame announced with
\* the 126 or 127 length form and a payload length above 125.
C4_ControlLength ==
    (/\ cpc = "decoded"
     /\ WholeFrame(cmask, cstream)
     /\ cstream[1] \in {136, 137, 138}
     /\ ~MaskViolation(cmask, cstream[2])
     /\ cstream[2] % 128 \in {126, 127}
     /\ AnnouncedLength(cstream) > 125)
        => (cresult.kind = "err" /\ cresult.err = "Inconsistent")

(***************************************************************************)
(* Properties of the connection engine (checked under Spec and FairSpec).  *)
(***************************************************************************)
\* The frames on a stream written by an endpoint with mask m, read as the
\* protocol defines them (masked when m = "Client").
RECURSIVE WireFrames(_, _)
WireFrames(m, stream) ==
    IF Len(stream) < 2 \/ ~OpcodeKnown(stream[1] % 16) THEN <<>>
    ELSE LET reader == Opposite(m)
             h == HeaderLength(reader, stream)
         IN IF Len(stream) < h THEN <<>>
            ELSE IF AnnouncedLength(stream) >= SatCap THEN <<>>
            ELSE IF Len(stream) < h + AnnouncedLength(stream) THEN <<>>
            ELSE LET n == AnnouncedLength(stream)
                     body == SubSeq(stream, h + 1, h + n)
                     payload == IF reader = "Server"
                                THEN xor_payload(SubSeq(stream, h - 3, h), body)
                                ELSE body
                 IN <<RawFrame(Bit(stream[1], 7) = 1, OpcodeTryFrom(stream[1] % 16),
                               payload)>>
                    \o WireFrames(m, Drop(stream, h + n))

\* The messages a sequence of frames carries: a Text / Binary frame opens a
\* message, Continuation frames extend it, fin completes it; control frames
\* in between are skipped.
RECURSIVE Reassemble(_, _)
Reassemble(frames, open) ==
    IF frames = <<>> THEN <<>>
    ELSE LET f == Head(frames)
             rest == Tail(frames)
         IN IF ControlOpcode(f.opcode) THEN Reassemble(rest, open)
            ELSE LET msg == IF f.opcode = "Continuation"
                            THEN [kind |-> open.kind, data |-> open.data \o f.payload]
                            ELSE [kind |-> f.opcode, data |-> f.payload]
                 IN IF f.fin THEN <<msg>> \o Reassemble(rest, [kind |-> "none", data |-> <<>>])
                    ELSE Reassemble(rest, msg)

ReassembledMessages(frames) == Reassemble(frames, [kind |-> "none", data |-> <<>>])

RECURSIVE AcceptedFrom(_)
AcceptedFrom(log) ==
    IF log = <<>> THEN <<>>
    ELSE (IF Head(log).result = "Ok" THEN <<Head(log).message>> ELSE <<>>)
         \o AcceptedFrom(Tail(log))

\* the messages send accepted, in call order
Accepted == AcceptedFrom(send_log)

RECURSIVE ReceivedFrom(_)
ReceivedFrom(log) ==
    IF log = <<>> THEN <<>>
    ELSE Head(log).message \o ReceivedFrom(Tail(log))

\* the messages handed to receive so far, then those waiting for it
Delivered == ReceivedFrom(receive_log) \o receive_q

\* C5: once the manager task has terminated every send returns
\* Err(ConnectionClosed); while it is alive send returns Ok and the message
\* is appended to the outbound queue.
C5_SendAfterTermination ==
    \A i \in DOMAIN send_log :
        LET call == send_log[i]
        IN /\ call.manager = "panicked"
                => (call.result = "ConnectionClosed" /\ call.queued = call.before)
           /\ call.manager = "running"
                => (call.result = "Ok" /\ call.queued = Append(call.before, call.message))

\* one send was accepted while the manager ran and a later one was refused
C5_Witness ==
    /\ Len(send_log) = 2
    /\ send_log[1].manager = "running" /\ send_log[1].result = "Ok"
    /\ send_log[2].manager = "panicked" /\ send_log[2].result = "ConnectionClosed"

\* every completed receive either returned the oldest queued message or,
\* with the queue empty and the manager terminated, ConnectionClosed
ReceiveLogSound ==
    \A i \in DOMAIN receive_log :
        LET call == receive_log[i]
        IN /\ call.result = "Ok"
                => (call.queue # <<>> /\ call.message = <<Head(call.queue)>>)
           /\ call.result = "ConnectionClosed"
                => (call.queue = <<>> /\ call.manager = "panicked")
           /\ call.result \in {"Ok", "ConnectionClosed"}

CloseFramesWritten ==
    SelectSeq(WireFrames(mask, tx_stream), LAMBDA f : f.opcode = "Close")

\* C7: after stop() on an open connection the manager has written exactly
\* one Close frame, with status 1000, by the time it terminates.
C7_StopWritesClose ==
    (stop_sent /\ manager_exit = "stop")
        => /\ Len(CloseFramesWritten) = 1
           /\ Len(CloseFramesWritten[1].payload) >= 2
           /\ Take(CloseFramesWritten[1].payload, 2) = <<3, 232>>

\* nothing but send has happened to the connection
OnlySends ==
    /\ app \in {"idle", "receiving"}
    /\ ~stop_sent
    /\ peer_log = <<>>
    /\ ~rx_eof

\* C8: on a connection that nothing closes, the messages accepted by send
\* are, in order, the messages written to the stream followed by those
\* still on the outbound queue.
C8_OutboundFifo ==
    OnlySends
        => Accepted = ReassembledMessages(WireFrames(mask, tx_stream)) \o send_q

\* C9: when the manager has decoded a Ping, a Pong with the same payload is
\* on the stream (ahead of every message still on the outbound queue).
C9_PingAnswered ==
    (manager_exit = "frame" /\ decoded.kind = "ok" /\ decoded.frame.opcode = "Ping")
        => \E i \in DOMAIN WireFrames(mask, tx_stream) :
              WireFrames(mask, tx_stream)[i]
                  = RawFrame(TRUE, "Pong", decoded.frame.payload)

\* C10: when the peer has sent a fragmented message (with or without a Ping
\* between the fragments) and nothing else has happened, the manager keeps
\* running and, once it has read the fragments, the one reassembled message
\* is what receive gets.
C10_FragmentsDelivered ==
    (/\ peer_log \in {<<TextFirst, ContinuationLast>>,
                      <<TextFirst, PingFrame, ContinuationLast>>}
     /\ app \in {"idle", "receiving"}
     /\ ~stop_sent
     /\ send_log = <<>>
     /\ ~rx_eof)
        => /\ manager = "running"
           /\ rx_stream = <<>> => Delivered = ReassembledMessages(peer_log)

\* the status codes a Close sent for a protocol violation may carry
\* (1002, 1003, 1007, 1009, 1011), as big-endian payload prefixes
ViolationStatuses == {<<3, 234>>, <<3, 235>>, <<3, 239>>, <<3, 241>>, <<3, 243>>}

\* C11: when decode has returned a protocol violation, the manager has
\* written a Close frame carrying the mapped status code by the time it has
\* terminated, and a receive made then returns ConnectionClosed.
C11_ViolationAnsweredByClose ==
    (/\ manager = "panicked"
     /\ manager_exit = "frame"
     /\ decoded.kind = "err"
     /\ decoded.at \in {"reserved_bits", "opcode", "mask", "size"})
        => /\ Len(CloseFramesWritten) = 1
           /\ Len(CloseFramesWritten[1].payload) >= 2
           /\ Take(CloseFramesWritten[1].payload, 2) \in ViolationStatuses
           /\ ~receive_tx_alive

\* C17: the fin / opcode check of decode rejects exactly the control opcodes
\* with fin clear; a Continuation, Text or Binary frame passes it with either
\* fin value.
C17_FinOpcodeCheck ==
    (/\ cpc = "decoded"
     /\ Len(cstream) >= 1
     /\ ~RsvSet(cstream[1])
     /\ OpcodeKnown(cstream[1] % 16))
        => LET fin == Bit(cstream[1], 7) = 1
               opcode == OpcodeTryFrom(cstream[1] % 16)
           IN (cresult.at = "fin_opcode") <=> (ControlOpcode(opcode) /\ ~fin)

\* C18: the first octet encode writes is (fin << 7) | opcode, with bits 4..6
\* zero; the second has bit 7 set iff the role is Client and carries the
\* length indicator in its low 7 bits.
C18_HeaderOctets ==
    (cpc \in {"encoded", "roundtrip"})
        => /\ cwritten.kind = "ok"
           /\ Len(cwritten.bytes) >= 2
           /\ cwritten.bytes[1] = (IF craw.fin THEN 128 ELSE 0) + OpcodeInto(craw.opcode)
           /\ Bit(cwritten.bytes[2], 7) = (IF cmask = "Client" THEN 1 ELSE 0)
           /\ cwritten.bytes[2] % 128 = LengthIndicator(Len(craw.payload))

\* C19: encode writes the shortest length form: up to 125 inline with no
\* extended field, 126..65535 as indicator 126 and a big-endian u16, larger as
\* indicator 127 and a big-endian u64.
C19_ShortestLengthForm ==
    (cpc \in {"encoded", "roundtrip"})
        => LET n == Len(craw.payload)
               b == cwritten.bytes
               rest == (IF cmask = "Client" THEN 4 ELSE 0) + n
           IN /\ cwritten.kind = "ok"
              /\ Len(b) >= 2
              /\ n <= 125 => (b[2] % 128 = n /\ Len(b) = 2 + rest)
              /\ (n >= 126 /\ n <= 65535)
                    => /\ b[2] % 128 = 126
                       /\ Len(b) = 4 + rest
                       /\ SubSeq(b, 3, 4) = <<n \div 256, n % 256>>
              /\ n >= 65536
                    => /\ b[2] % 128 = 127
                       /\ Len(b) = 10 + rest
                       /\ SubSeq(b, 3, 10)
                            = <<0, 0, 0, 0, n \div 16777216, (n \div 65536) % 256,
                                (n \div 256) % 256, n % 256>>

\* the payload bytes of a whole frame as its reader must return them
FramePayload(m, stream) ==
    LET h == HeaderLength(m, stream)
        body == SubSeq(stream, h + 1, Len(stream))
    IN IF m = "Server" THEN xor_payload(SubSeq(stream, h - 3, h), body) ELSE body

\* C20: on a well-formed frame that passes the mask check and announces a
\* payload of L bytes, decode consumes the header and exactly L payload bytes
\* and returns a payload of length L, unmasked with key[i mod 4] on a Server.
C20_PayloadRead ==
    (/\ cpc = "decoded"
     /\ WholeFrame(cmask, cstream)
     /\ ProtocolFirstOctet(cstream[1])
     /\ ~MaskViolation(cmask, cstream[2])
     /\ AnnouncedLength(cstream) <= MAX_FRAME_PAYLOAD_SIZE
     /\ ControlOpcode(OpcodeTryFrom(cstream[1] % 16)) => cstream[2] % 128 <= 125)
        => /\ cresult.kind = "ok"
           /\ cresult.consumed = Len(cstream)
           /\ Len(cresult.frame.payload) = AnnouncedLength(cstream)
           /\ cresult.frame.payload = FramePayload(cmask, cstream)

(***************************************************************************)
(* Properties of the handshake and the gateway (checked under SpecGateway).*)
(***************************************************************************)
\* the header section and the frame bytes of what a peer sends
HeaderSection(script) == SelectSeq(script, LAMBDA l : l.t # "byte")

ResidualOf(script) == SelectSeq(script, LAMBDA l : l.t = "byte")

\* how many headers of a parsed message have the name (any case) and value
Occurrences(message, name, value) ==
    Cardinality({k \in DOMAIN message.headers : is(message.headers[k], name, value)})

\* the values of the headers of a parsed message that have the name
ValuesOf(message, name) ==
    {message.headers[k].value : k \in {j \in DOMAIN message.headers :
                                            is_key(message.headers[j], name)}}

\* the gateway function went past validation
HandshakeAccepted == gpc \in {"handoff", "open"}

\* C12: when accept has returned on a failed handshake (a request that does
\* not parse as HTTP, or one that fails validation), 400 Bad Request is what
\* it wrote to the stream, its result is an InvalidHandshake error and no
\* engine was started.
C12_FailureWrites400 ==
    (gside = "accept" /\ gpc = "returned")
        => /\ gout = BadRequest
           /\ gresult \in {"HttpRequestParser", "NonConformant"}
           /\ gengine = "none"

\* C13: once the engine runs, no byte the peer sent behind the header
\* terminator is lost: the bytes the engine has read, followed by the bytes
\* still in the socket and the bytes still to be sent, are those bytes in
\* order, under accept and under connect.
C13_NoByteLost ==
    (gpc = "open")
        => gengine_rx \o gsock \o gpeer = ResidualOf(gscript)

\* C14: connect goes past validation only when the response holds
\* Upgrade: websocket exactly once and Connection: Upgrade exactly once.
C14_ExactlyOnce ==
    (gside = "connect" /\ HandshakeAccepted)
        => /\ Occurrences(gparsed, "Upgrade", "websocket") = 1
           /\ Occurrences(gparsed, "Connection", "Upgrade") = 1

\* C15: accept goes past validation only when the request holds Host,
\* Upgrade: websocket, Connection: Upgrade, Sec-WebSocket-Version: 13 and a
\* Sec-WebSocket-Key whose value base64-decodes to exactly 16 bytes.
C15_FiveHeaders ==
    (gside = "accept" /\ HandshakeAccepted)
        => /\ ValuesOf(gparsed, "Host") # {}
           /\ Occurrences(gparsed, "Upgrade", "websocket") > 0
           /\ Occurrences(gparsed, "Connection", "Upgrade") > 0
           /\ Occurrences(gparsed, "Sec-WebSocket-Version", "13") > 0
           /\ ValuesOf(gparsed, "Sec-WebSocket-Key") # {}
           /\ \A key \in ValuesOf(gparsed, "Sec-WebSocket-Key") :
                  Base64DecodedLen(key) = 16

\* C16: when the peer of accept sent the request of ClientHandshake::
\* raw_request, accept ends with Ok, and what it wrote is a response that
\* client's is_valid_response accepts.
C16_HalvesAgree ==
    \A key \in GeneratedKeys :
        (/\ gside = "accept"
         /\ HeaderSection(gscript) = raw_request(key, Addr)
         /\ gpc \in {"returned", "open"})
            => /\ gresult = "Ok"
               /\ parse_response(HeaderSection(gout)).kind = "ok"
               /\ is_valid_response(key, parse_response(HeaderSection(gout)))

\* the octets of a frame before the masking key: two octets and the
\* extended length
LengthFieldEnd(stream) ==
    2 + (CASE stream[2] % 128 <= 125 -> 0
           [] stream[2] % 128 = 126 -> 2
           [] stream[2] % 128 = 127 -> 8)

\* C21: a Text or Binary frame that passes the mask check and whose payload
\* length resolves to more than MAX_FRAME_PAYLOAD_SIZE, a 64-bit length with
\* its high bit set included, fails with PayloadSize when decode has read the
\* length and nothing behind it; a length of exactly MAX_FRAME_PAYLOAD_SIZE is
\* not rejected for size.
C21_PayloadBound ==
    (/\ cpc = "decoded"
     /\ Len(cstream) >= 2
     /\ cstream[1] \in {1, 2, 129, 130}
     /\ ~MaskViolation(cmask, cstream[2])
     /\ Len(cstream) >= LengthFieldEnd(cstream))
        => /\ AnnouncedLength(cstream) > MAX_FRAME_PAYLOAD_SIZE
                => /\ cresult.kind = "err"
                   /\ cresult.err = "PayloadSize"
                   /\ cresult.consumed = LengthFieldEnd(cstream)
           /\ AnnouncedLength(cstream) = MAX_FRAME_PAYLOAD_SIZE
                => ~(cresult.kind = "err" /\ cresult.err = "PayloadSize")

(***************************************************************************)
(* Properties of the status code conversions (checked under SpecStatus).   *)
(***************************************************************************)
\* the status codes that may appear on the wire
WireStatusCodes == {1000, 1001, 1002, 1003, 1007, 1008, 1009, 1011}

\* C22: StatusCode::try_from succeeds exactly on 1000, 1001, 1002, 1003,
\* 1007, 1008, 1009 and 1011 and fails with Code(raw) on every other u16, and
\* converting the parsed StatusCode back returns the u16 it was parsed from,
\* without a panic.
C22_StatusRoundTrip ==
    /\ spc \in {"parsed", "converted"}
          => /\ (sparsed.kind = "ok") <=> (sraw \in WireStatusCodes)
             /\ sparsed.kind = "ok" => sparsed.status \in StatusCode
             /\ sparsed.kind # "ok"
                   => (sparsed.kind = "err" /\ sparsed.err = "Code" /\ sparsed.raw = sraw)
    /\ spc = "converted" => (sback.kind = "ok" /\ sback.value = sraw)

(***************************************************************************)
(* Termination of Connection::stop (checked under FairSpec).               *)
(***************************************************************************)
\* C23: Connection::stop always returns: whether the manager was still
\* waiting on its three event sources or had already terminated when stop
\* was called, the join completes, and once stop has returned the manager
\* task is not running.
C23_StopReturns ==
    /\ (app = "stopping") ~> (app = "stopped")
    /\ [](app = "stopped" => manager # "running")

\* stop was called on a running manager, whose stop branch ended the task,
\* and has returned
C23_Witness ==
    /\ app = "stopped"
    /\ stop_sent
    /\ manager_exit = "stop"

====
